---- MODULE Spec2Model ----
(***************************************************************************)
(* Port-forward lifecycle of internal/view/pf_extender.go.                 *)
(*                                                                         *)
(* The UI loop runs portFwdCmd, the dialog callbacks (startFwdCB, the      *)
(* teardown confirmation) and the closures handed to QueueUpdateDraw, one  *)
(* at a time.  Every `go runForward` is a goroutine of its own whose       *)
(* statements interleave with the UI loop and with the other goroutines.   *)
(* Results of calls that leave the file (accessor lookup, pod fetch,       *)
(* pf.Start, pf.Delete, ForwardPorts, net.Listen) are chosen by the        *)
(* environment.                                                            *)
(***************************************************************************)
EXTENDS Integers, Sequences, FiniteSets, TLC

VARIABLES registry, sessKey, active, pc, uiq, nextId, dialog, last, mm, ports

vars == <<registry, sessKey, active, pc, uiq, nextId, dialog, last, mm, ports>>

----------------------------------------------------------------------------
(* Bounds and value sets                                                   *)

MaxSessions == 2
MaxBatch == 2
MaxPorts == 2

Pods == {"p1"}
Containers == {"c1"}
\* A tunnel of a batch is represented by what net.Listen answers for its
\* address:port at the moment startFwdCB tries it.
ListenAnswers == {"free", "busy"}
Selections == {"", "r1"}

NoPod == ""
None == 0
Sessions == 1..MaxSessions
Batches == UNION {[1..n -> ListenAnswers] : n \in 1..MaxBatch}
ResolveOutcomes == {"accessor", "notController", "podErr"} \cup Pods

\* What pf.Start can answer: it has to reach the pod, and the cluster holds
\* no pod with the empty name.
StartAnswers(path) == IF path \in Pods THEN BOOLEAN ELSE {FALSE}

----------------------------------------------------------------------------
(* Session key and Registry                                                *)

PortForwardID(path, co) == <<path, co>>

Keys == {PortForwardID(p, c) : p \in Pods \cup {NoPod}, c \in Containers}

NoKey == <<"-", "-">>

FQN(s) == sessKey[s]

ForwarderFor(k) == registry[k]

GetForwarders(pod) == {s \in Sessions : \E k \in Keys : registry[k] = s /\ k[1] = pod}

AddForwarder(s) ==
    IF registry[FQN(s)] = None THEN [registry EXCEPT ![FQN(s)] = s] ELSE registry

DeleteForwarder(k) == [registry EXCEPT ![k] = None]

----------------------------------------------------------------------------
(* What the most recent step was: the thread it ran on, what it was given  *)
(* (sel: the selected item; res, fetchOk: the collaborators' answers to    *)
(* the trigger; busy, dup, startOk: a busy port in the batch, a session    *)
(* already under the key, the answer of pf.Start; delOk: the answer of     *)
(* pf.Delete), the failures it met, the flashes it emitted and the value   *)
(* it returned.                                                            *)

NoObs ==
    [op |-> "init", thread |-> "ui", sel |-> "", res |-> "", fetchOk |-> FALSE,
     busy |-> FALSE, dup |-> FALSE, startOk |-> FALSE, delOk |-> FALSE,
     fails |-> <<>>, errs |-> <<>>, infos |-> <<>>,
     ret |-> "nil", regQueried |-> FALSE, refreshed |-> FALSE]

NoDialog == [kind |-> "none", pod |-> ""]

\* mm is the port map fetchPodPorts returned (container name -> declared
\* ports) and ports the candidate list handed to ShowPortForwards; both
\* are followed in detail under SpecPorts only.
NoPortMap == [co \in {} |-> <<>>]

Init ==
    /\ registry = [k \in Keys |-> None]
    /\ sessKey = [s \in Sessions |-> NoKey]
    /\ active = [s \in Sessions |-> FALSE]
    /\ pc = [s \in Sessions |-> "none"]
    /\ uiq = [s \in Sessions |-> <<>>]
    /\ nextId = 1
    /\ dialog = NoDialog
    /\ last = NoObs
    /\ mm = NoPortMap
    /\ ports = <<>>

----------------------------------------------------------------------------
(* UI loop: the trigger                                                    *)

Obs(op, thread) == [NoObs EXCEPT !.op = op, !.thread = thread]

\* fetchPodName: res is what the collaborators answer; a failed accessor
\* lookup is returned as ("", nil).
fetchPodName(res) ==
    IF res = "accessor" THEN [pod |-> NoPod, err |-> "nil"]
    ELSE IF res = "notController" THEN [pod |-> NoPod, err |-> "notController"]
    ELSE IF res = "podErr" THEN [pod |-> NoPod, err |-> "podErr"]
    ELSE [pod |-> res, err |-> "nil"]

\* fetchPodPorts: the pod fetch or its decoding fails, or the port map is
\* returned.
fetchPodPorts(path, fetchOk) == IF fetchOk THEN "nil" ELSE "fetch"

showFwdDialog(path, fetchOk) ==
    IF fetchPodPorts(path, fetchOk) # "nil"
    THEN [err |-> fetchPodPorts(path, fetchOk), dialog |-> dialog]
    ELSE [err |-> "nil", dialog |-> [kind |-> "ports", pod |-> path]]

showDeleteFwdDialog(path, fs) ==
    [err |-> "nil", dialog |-> [kind |-> "delete", pod |-> path]]

\* The failures met while the trigger ran, in order.
portFwdFails(res, fetchOk) ==
    LET r == fetchPodName(res)
        first == IF res \in Pods THEN <<>> ELSE <<res>>
    IN IF r.err # "nil" THEN first
       ELSE IF GetForwarders(r.pod) # {} THEN first
       ELSE IF fetchOk THEN first ELSE first \o <<"fetch">>

\* portFwdCmd with the check of the pod's forwarders lost: it always goes
\* on to the port-selection dialog.
portFwdCmdResult_AlwaysStart(sel, res, fetchOk) ==
    LET r == fetchPodName(res)
        fwd == showFwdDialog(r.pod, fetchOk)
    IN IF sel = ""
       THEN [ret |-> "evt", errs |-> <<>>, dialog |-> dialog, regQueried |-> FALSE]
       ELSE IF r.err # "nil"
       THEN [ret |-> "nil", errs |-> <<r.err>>, dialog |-> dialog, regQueried |-> FALSE]
       ELSE [ret |-> "nil", errs |-> IF fwd.err # "nil" THEN <<fwd.err>> ELSE <<>>,
             dialog |-> fwd.dialog, regQueried |-> FALSE]

\* portFwdCmd without the early return on an empty selection.
portFwdCmdResult_NoSelectionCheck(sel, res, fetchOk) ==
    LET r == fetchPodName(res)
        fs == GetForwarders(r.pod)
        del == showDeleteFwdDialog(r.pod, fs)
        fwd == showFwdDialog(r.pod, fetchOk)
    IN IF r.err # "nil"
       THEN [ret |-> "nil", errs |-> <<r.err>>, dialog |-> dialog, regQueried |-> FALSE]
       ELSE IF fs # {}
       THEN [ret |-> "nil", errs |-> IF del.err # "nil" THEN <<del.err>> ELSE <<>>,
             dialog |-> del.dialog, regQueried |-> TRUE]
       ELSE [ret |-> "nil", errs |-> IF fwd.err # "nil" THEN <<fwd.err>> ELSE <<>>,
             dialog |-> fwd.dialog, regQueried |-> TRUE]

portFwdCmdResult(sel, res, fetchOk) ==
    LET r == fetchPodName(res)
        fs == GetForwarders(r.pod)
        del == showDeleteFwdDialog(r.pod, fs)
        fwd == showFwdDialog(r.pod, fetchOk)
    IN IF sel = ""
       THEN [ret |-> "evt", errs |-> <<>>, dialog |-> dialog, regQueried |-> FALSE]
       ELSE IF r.err # "nil"
       THEN [ret |-> "nil", errs |-> <<r.err>>, dialog |-> dialog, regQueried |-> FALSE]
       ELSE IF fs # {}
       THEN [ret |-> "nil", errs |-> IF del.err # "nil" THEN <<del.err>> ELSE <<>>,
             dialog |-> del.dialog, regQueried |-> TRUE]
       ELSE [ret |-> "nil", errs |-> IF fwd.err # "nil" THEN <<fwd.err>> ELSE <<>>,
             dialog |-> fwd.dialog, regQueried |-> TRUE]

portFwdCmd(sel, res, fetchOk) ==
    /\ dialog.kind = "none"
    /\ LET out == portFwdCmdResult(sel, res, fetchOk)
       IN /\ dialog' = out.dialog
          /\ last' = [Obs("portFwdCmd", "ui") EXCEPT
                        !.sel = sel,
                        !.res = IF sel = "" THEN "" ELSE res,
                        !.fetchOk = sel # "" /\ fetchOk,
                        !.fails = IF sel = "" THEN <<>> ELSE portFwdFails(res, fetchOk),
                        !.errs = out.errs, !.ret = out.ret,
                        !.regQueried = out.regQueried]
    /\ UNCHANGED <<registry, sessKey, active, pc, uiq, nextId, mm, ports>>

----------------------------------------------------------------------------
(* UI loop: the port-selection dialog and startFwdCB                       *)

tryListenPort(t) == IF t = "busy" THEN "listen" ELSE "nil"

\* The loop over tt returns at the first port that cannot be bound.
portsFree(tt) == \A i \in 1..Len(tt) : tryListenPort(tt[i]) = "nil"

\* startFwdCB trying only the first port of the batch.
startFwdCBResult_FirstPortOnly(path, co, tt, startOk) ==
    IF tryListenPort(tt[1]) # "nil" THEN [err |-> "listen", launch |-> FALSE]
    ELSE IF ForwarderFor(PortForwardID(path, co)) # None
    THEN [err |-> "duplicate", launch |-> FALSE]
    ELSE IF ~startOk THEN [err |-> "start", launch |-> FALSE]
    ELSE [err |-> "nil", launch |-> TRUE]

\* startFwdCB without the lookup of an existing session.
startFwdCBResult_NoDuplicateCheck(path, co, tt, startOk) ==
    IF ~portsFree(tt) THEN [err |-> "listen", launch |-> FALSE]
    ELSE IF ~startOk THEN [err |-> "start", launch |-> FALSE]
    ELSE [err |-> "nil", launch |-> TRUE]

\* startFwdCB going on to `go runForward` whatever pf.Start answered.
startFwdCBResult_IgnoreStartErr(path, co, tt, startOk) ==
    IF ~portsFree(tt) THEN [err |-> "listen", launch |-> FALSE]
    ELSE IF ForwarderFor(PortForwardID(path, co)) # None
    THEN [err |-> "duplicate", launch |-> FALSE]
    ELSE [err |-> "nil", launch |-> TRUE]

\* Outcome of startFwdCB: the flash it emits and whether it reaches
\* `go runForward`.
startFwdCBResult(path, co, tt, startOk) ==
    IF ~portsFree(tt) THEN [err |-> "listen", launch |-> FALSE]
    ELSE IF ForwarderFor(PortForwardID(path, co)) # None
    THEN [err |-> "duplicate", launch |-> FALSE]
    ELSE IF ~startOk THEN [err |-> "start", launch |-> FALSE]
    ELSE [err |-> "nil", launch |-> TRUE]

startFwdCB(path, co, tt, startOk) ==
    LET out == startFwdCBResult(path, co, tt, startOk)
    IN /\ out.launch => nextId <= MaxSessions
       /\ IF out.launch
          THEN /\ sessKey' = [sessKey EXCEPT ![nextId] = PortForwardID(path, co)]
               /\ pc' = [pc EXCEPT ![nextId] = "launched"]
               /\ nextId' = nextId + 1
          ELSE UNCHANGED <<sessKey, pc, nextId>>
       /\ last' = [Obs("startFwdCB", "ui") EXCEPT
                     !.busy = \E i \in 1..Len(tt) : tt[i] = "busy",
                     !.dup = registry[PortForwardID(path, co)] # None,
                     !.startOk = startOk,
                     !.fails = IF out.err # "nil" THEN <<out.err>> ELSE <<>>,
                     !.errs = IF out.err # "nil" THEN <<out.err>> ELSE <<>>]
       /\ UNCHANGED <<registry, active, uiq, dialog, mm, ports>>

PortsOK(co, tt, startOk) ==
    /\ dialog.kind = "ports"
    /\ startFwdCB(dialog.pod, co, tt, startOk)

PortsCancel ==
    /\ dialog.kind = "ports"
    /\ dialog' = NoDialog
    /\ last' = Obs("portsCancel", "ui")
    /\ UNCHANGED <<registry, sessKey, active, pc, uiq, nextId, mm, ports>>

----------------------------------------------------------------------------
(* UI loop: the teardown confirmation                                      *)

\* pf.Delete on success: every session of the pod leaves the Registry and
\* its transport is closed.
PortForwardDelete(path) ==
    [k \in Keys |-> IF k[1] = path THEN None ELSE registry[k]]

\* The confirmation closure without the return after the error flash.
DeleteOK_NoReturnOnError(delOk) ==
    /\ dialog.kind = "delete"
    /\ dialog' = NoDialog
    /\ IF delOk
       THEN /\ registry' = PortForwardDelete(dialog.pod)
            /\ last' = [Obs("deleteOK", "ui") EXCEPT
                          !.delOk = TRUE,
                          !.infos = <<"deleted">>, !.refreshed = TRUE]
       ELSE /\ UNCHANGED registry
            /\ last' = [Obs("deleteOK", "ui") EXCEPT
                          !.fails = <<"delete">>, !.errs = <<"delete">>,
                          !.infos = <<"deleted">>, !.refreshed = TRUE]
    /\ UNCHANGED <<sessKey, active, pc, uiq, nextId, mm, ports>>

DeleteOK(delOk) ==
    /\ dialog.kind = "delete"
    /\ dialog' = NoDialog
    /\ IF delOk
       THEN /\ registry' = PortForwardDelete(dialog.pod)
            /\ last' = [Obs("deleteOK", "ui") EXCEPT
                          !.delOk = TRUE,
                          !.infos = <<"deleted">>, !.refreshed = TRUE]
       ELSE /\ UNCHANGED registry
            /\ last' = [Obs("deleteOK", "ui") EXCEPT
                          !.fails = <<"delete">>, !.errs = <<"delete">>]
    /\ UNCHANGED <<sessKey, active, pc, uiq, nextId, mm, ports>>

DeleteCancel ==
    /\ dialog.kind = "delete"
    /\ dialog' = NoDialog
    /\ last' = Obs("deleteCancel", "ui")
    /\ UNCHANGED <<registry, sessKey, active, pc, uiq, nextId, mm, ports>>

----------------------------------------------------------------------------
(* The goroutine of runForward.  pc[s] is its position:                    *)
(*   "launched"   go runForward issued, nothing executed yet               *)
(*   "queued"     AddForwarder done and the "activated" closure queued     *)
(*   "fwdCall"    SetActive(true) done, ForwardPorts called                *)
(*   "forwarding" ForwardPorts has its listeners up and relays traffic     *)
(*   "done"       runForward has returned                                  *)

RunObs(op) == Obs(op, "runner")

\* AddForwarder, then QueueUpdateDraw of the "activated" closure (the
\* enqueue touches only the goroutine's own queue).
RunAddForwarder(s) ==
    /\ pc[s] = "launched"
    /\ registry' = AddForwarder(s)
    /\ uiq' = [uiq EXCEPT ![s] = Append(@, "activated")]
    /\ pc' = [pc EXCEPT ![s] = "queued"]
    /\ last' = RunObs("runForward")
    /\ UNCHANGED <<sessKey, active, nextId, dialog, mm, ports>>

RunSetActive(s) ==
    /\ pc[s] = "queued"
    /\ active' = [active EXCEPT ![s] = TRUE]
    /\ pc' = [pc EXCEPT ![s] = "fwdCall"]
    /\ last' = RunObs("runForward")
    /\ UNCHANGED <<registry, sessKey, uiq, nextId, dialog, mm, ports>>

\* Inside ForwardPorts: the listeners are up and traffic is relayed.
FwdReady(s) ==
    /\ pc[s] = "fwdCall"
    /\ pc' = [pc EXCEPT ![s] = "forwarding"]
    /\ last' = RunObs("runForward")
    /\ UNCHANGED <<registry, sessKey, active, uiq, nextId, dialog, mm, ports>>

\* ForwardPorts returns an error: flashed from the goroutine, then return.
FwdErr(s) ==
    /\ pc[s] \in {"fwdCall", "forwarding"}
    /\ pc' = [pc EXCEPT ![s] = "done"]
    /\ last' = [RunObs("ForwardPortsErr") EXCEPT
                  !.fails = <<"transport">>, !.errs = <<"transport">>]
    /\ UNCHANGED <<registry, sessKey, active, uiq, nextId, dialog, mm, ports>>

\* ForwardPorts returns nil (the transport was closed or the connection to
\* the pod was lost): the cleanup closure is queued.
FwdNil(s) ==
    /\ pc[s] = "forwarding"
    /\ uiq' = [uiq EXCEPT ![s] = Append(@, "cleanup")]
    /\ pc' = [pc EXCEPT ![s] = "done"]
    /\ last' = RunObs("runForward")
    /\ UNCHANGED <<registry, sessKey, active, nextId, dialog, mm, ports>>

----------------------------------------------------------------------------
(* UI loop: the closures queued by QueueUpdateDraw                         *)

DismissPortForwards == IF dialog.kind = "ports" THEN NoDialog ELSE dialog

\* The "activated" closure run only once the tunnel has ended, as if the UI
\* loop waited on ForwardPorts.
UIActivated_AfterTunnel(s) ==
    /\ pc[s] = "done"
    /\ uiq[s] # <<>> /\ Head(uiq[s]) = "activated"
    /\ uiq' = [uiq EXCEPT ![s] = Tail(@)]
    /\ dialog' = DismissPortForwards
    /\ last' = [Obs("activated", "ui") EXCEPT !.infos = <<"activated">>]
    /\ UNCHANGED <<registry, sessKey, active, pc, nextId, mm, ports>>

UIActivated(s) ==
    /\ uiq[s] # <<>> /\ Head(uiq[s]) = "activated"
    /\ uiq' = [uiq EXCEPT ![s] = Tail(@)]
    /\ dialog' = DismissPortForwards
    /\ last' = [Obs("activated", "ui") EXCEPT !.infos = <<"activated">>]
    /\ UNCHANGED <<registry, sessKey, active, pc, nextId, mm, ports>>

UICleanup(s) ==
    /\ uiq[s] # <<>> /\ Head(uiq[s]) = "cleanup"
    /\ uiq' = [uiq EXCEPT ![s] = Tail(@)]
    /\ registry' = DeleteForwarder(FQN(s))
    /\ active' = [active EXCEPT ![s] = FALSE]
    /\ last' = Obs("cleanup", "ui")
    /\ UNCHANGED <<sessKey, pc, nextId, dialog, mm, ports>>

----------------------------------------------------------------------------

Next ==
    \/ \E sel \in Selections, res \in ResolveOutcomes, fetchOk \in BOOLEAN :
          portFwdCmd(sel, res, fetchOk)
    \/ \E co \in Containers, tt \in Batches, startOk \in StartAnswers(dialog.pod) :
          PortsOK(co, tt, startOk)
    \/ PortsCancel
    \/ \E delOk \in BOOLEAN : DeleteOK(delOk)
    \/ DeleteCancel
    \/ \E s \in Sessions : RunAddForwarder(s)
    \/ \E s \in Sessions : RunSetActive(s)
    \/ \E s \in Sessions : FwdReady(s)
    \/ \E s \in Sessions : FwdErr(s)
    \/ \E s \in Sessions : FwdNil(s)
    \/ \E s \in Sessions : UIActivated(s)
    \/ \E s \in Sessions : UICleanup(s)

Spec == Init /\ [][Next]_vars

\* The UI loop keeps draining the closures queued by QueueUpdateDraw.  No
\* goroutine is assumed to make progress: ForwardPorts may block for ever.
FairSpec ==
    /\ Spec
    /\ \A s \in Sessions : WF_vars(UIActivated(s)) /\ WF_vars(UICleanup(s))

TypeOK ==
    /\ registry \in [Keys -> Sessions \cup {None}]
    /\ nextId \in 1..(MaxSessions + 1)
    /\ dialog.kind \in {"none", "ports", "delete"}
    /\ \A s \in Sessions : pc[s] = "none" <=> s >= nextId

----------------------------------------------------------------------------
(* showFwdDialog in detail: from the pod's port map to the candidate list  *)

PodContainers == {"app", "sidecar"}
PortNames == {"http", ""}
PortNumbers == {80, 8080}
Protocols == {"TCP", "UDP"}

ContainerPort == [Name : PortNames, ContainerPort : PortNumbers, Protocol : Protocols]

PortLists == UNION {[1..n -> ContainerPort] : n \in 0..MaxPorts}

\* The maps fetchPodPorts can return: one port list per container name.
PortMaps == UNION {[cs -> PortLists] : cs \in SUBSET PodContainers}

Digits == <<"0", "1", "2", "3", "4", "5", "6", "7", "8", "9">>

RECURSIVE Itoa(_)
Itoa(n) == IF n < 10 THEN Digits[n + 1] ELSE Itoa(n \div 10) \o Digits[(n % 10) + 1]

ClientFQN(ns, n) == IF ns = "" THEN n ELSE ns \o "/" \o n

\* The inner loop without the protocol test.
RECURSIVE ContainerCandidates_NoFilter(_, _)
ContainerCandidates_NoFilter(co, pp) ==
    IF pp = <<>> THEN <<>>
    ELSE <<ClientFQN(co, Head(pp).Name) \o ":" \o Itoa(Head(pp).ContainerPort)>>
            \o ContainerCandidates_NoFilter(co, Tail(pp))

\* The inner loop: the ports of one container, non-TCP ones skipped.
RECURSIVE ContainerCandidates(_, _)
ContainerCandidates(co, pp) ==
    IF pp = <<>> THEN <<>>
    ELSE IF Head(pp).Protocol # "TCP" THEN ContainerCandidates(co, Tail(pp))
    ELSE <<ClientFQN(co, Head(pp).Name) \o ":" \o Itoa(Head(pp).ContainerPort)>>
            \o ContainerCandidates(co, Tail(pp))

\* The outer loop ranges over a Go map: order is the order the range
\* happens to visit the containers in.
RECURSIVE Candidates(_, _)
Candidates(m, order) ==
    IF order = <<>> THEN <<>>
    ELSE ContainerCandidates(Head(order), m[Head(order)]) \o Candidates(m, Tail(order))

RangeOrders(m) ==
    {o \in UNION {[1..n -> DOMAIN m] : n \in {Cardinality(DOMAIN m)}} :
        \A i, j \in DOMAIN o : i # j => o[i] # o[j]}

\* showFwdDialog after a successful fetchPodPorts.
ShowCandidates(order) ==
    /\ dialog.kind = "none"
    /\ ports' = Candidates(mm, order)
    /\ dialog' = [kind |-> "ports", pod |-> "p1"]
    /\ UNCHANGED <<registry, sessKey, active, pc, uiq, nextId, last, mm>>

\* The dialog is dismissed.
CloseCandidates ==
    /\ dialog.kind = "ports"
    /\ dialog' = NoDialog
    /\ ports' = <<>>
    /\ UNCHANGED <<registry, sessKey, active, pc, uiq, nextId, last, mm>>

InitPorts ==
    /\ registry = [k \in Keys |-> None]
    /\ sessKey = [s \in Sessions |-> NoKey]
    /\ active = [s \in Sessions |-> FALSE]
    /\ pc = [s \in Sessions |-> "none"]
    /\ uiq = [s \in Sessions |-> <<>>]
    /\ nextId = 1
    /\ dialog = NoDialog
    /\ last = NoObs
    /\ mm \in PortMaps
    /\ ports = <<>>

NextPorts ==
    \/ \E order \in RangeOrders(mm) : ShowCandidates(order)
    \/ CloseCandidates

SpecPorts == InitPorts /\ [][NextPorts]_vars

----------------------------------------------------------------------------
(* Vocabulary of the properties                                            *)

Live(s) == pc[s] \in {"launched", "queued", "fwdCall", "forwarding"}

Registered(k) == registry[k] # None

PodForwarded(pod) == \E k \in Keys : k[1] = pod /\ Registered(k)

ResolveFailures == {"accessor", "notController", "podErr"}

\* C1: of the start attempts against one session key that overlap (the later
\* startFwdCB runs before the earlier attempt's goroutine has inserted its
\* session), at most one launches a Runner: the later one is rejected.
C1_AtMostOneStartPerKey ==
    \A s1, s2 \in Sessions :
        (s1 < s2 /\ sessKey[s1] = sessKey[s2] /\ pc[s1] = "launched")
            => pc[s2] = "none"

\* C2: once a Runner has terminated and its queued UI updates have run, its
\* session is not in the Registry and its active flag is false.
C2_CleanupOnEveryTermination ==
    \A s \in Sessions :
        (pc[s] = "done" /\ uiq[s] = <<>>)
            => (~active[s] /\ registry[sessKey[s]] # s)

\* C3: a startFwdCB whose batch holds a port that fails the listen check, at
\* any position, flashes that error, creates no session, launches no Runner
\* and leaves the Registry and the open port dialog as they were; and a
\* start with only free ports, no session under the key and pf.Start
\* succeeding launches a Runner.
C3_BusyPortRejectsBatch ==
    [][last'.op = "startFwdCB" =>
         /\ last'.busy =>
               /\ registry' = registry /\ sessKey' = sessKey /\ pc' = pc
               /\ nextId' = nextId /\ active' = active /\ uiq' = uiq
               /\ dialog' = dialog
               /\ last'.errs = <<"listen">>
         /\ (~last'.busy /\ ~last'.dup /\ last'.startOk) =>
               /\ pc'[nextId] = "launched"
               /\ sessKey'[nextId][1] = dialog.pod
               /\ nextId' = nextId + 1
               /\ last'.errs = <<>>]_vars

\* C3 witness: a batch was rejected for a busy port after a session had been
\* started, and nothing was registered or launched for the rejected batch.
C3_Witness ==
    /\ last.op = "startFwdCB" /\ last.errs = <<"listen">>
    /\ dialog.kind = "ports"
    /\ nextId = 2 /\ ~Registered(PortForwardID(dialog.pod, "c1"))

\* C4: whenever a Runner goroutine has been launched and has not yet run a
\* statement, the Registry already holds its session.
C4_RegisteredBeforeLaunch ==
    \A s \in Sessions : pc[s] = "launched" => registry[sessKey[s]] = s

\* C5: a step of the Runner goroutine changes neither an active flag nor the
\* Registry and emits no flash; those happen only in steps of the UI loop.
C5_RunnerNeverTouchesUIState ==
    [][last'.thread = "runner" =>
         /\ active' = active
         /\ registry' = registry
         /\ last'.errs = <<>> /\ last'.infos = <<>>]_vars

\* C6 as claimed: a trigger on a target that resolves to a pod opens the
\* teardown confirmation when the Registry holds a session of the pod, and
\* the port-selection dialog when it holds none.
C6_DialogFollowsRegistry ==
    [][(last'.op = "portFwdCmd" /\ last'.res \in Pods) =>
         IF PodForwarded(last'.res)
         THEN dialog' = [kind |-> "delete", pod |-> last'.res]
         ELSE dialog' = [kind |-> "ports", pod |-> last'.res]]_vars

\* C6 amended: with a session of the pod in the Registry the teardown
\* confirmation is opened; with none, the port-selection dialog is opened
\* when the pod's ports can be fetched, and when they cannot no dialog is
\* opened and the fetch error is flashed.
C6_DialogFollowsRegistryOrFetchFails ==
    [][(last'.op = "portFwdCmd" /\ last'.res \in Pods) =>
         IF PodForwarded(last'.res)
         THEN dialog' = [kind |-> "delete", pod |-> last'.res] /\ last'.errs = <<>>
         ELSE IF last'.fetchOk
         THEN dialog' = [kind |-> "ports", pod |-> last'.res] /\ last'.errs = <<>>
         ELSE dialog' = NoDialog /\ last'.errs = <<"fetch">>]_vars

\* C6 witness: a trigger on a pod whose started session is in the Registry
\* has opened the teardown confirmation.
C6_Witness ==
    /\ last.op = "portFwdCmd"
    /\ dialog = [kind |-> "delete", pod |-> "p1"]
    /\ \E s \in Sessions : registry[PortForwardID("p1", "c1")] = s /\ Live(s)

\* C7: a startFwdCB whose ports are all free and whose session key is
\* already in the Registry flashes the duplicate-session error, creates no
\* session, launches no Runner and leaves the Registry, the sessions and
\* their active flags unchanged.
C7_DuplicateLeavesAllUntouched ==
    [][(last'.op = "startFwdCB" /\ ~last'.busy /\ last'.dup) =>
         /\ last'.errs = <<"duplicate">>
         /\ registry' = registry /\ active' = active
         /\ sessKey' = sessKey /\ pc' = pc /\ nextId' = nextId
         /\ uiq' = uiq]_vars

\* C7 witness: a start was rejected as a duplicate while the session of the
\* key was registered and active.
C7_Witness ==
    /\ last.op = "startFwdCB" /\ last.errs = <<"duplicate">>
    /\ \E s \in Sessions :
          /\ registry[PortForwardID(dialog.pod, "c1")] = s
          /\ active[s]

\* C8: a session's active flag is true only while ForwardPorts is relaying:
\* false before the listeners are up and false once ForwardPorts returned.
C8_ActiveOnlyWhileForwarding ==
    \A s \in Sessions : active[s] => pc[s] = "forwarding"

\* C9: a handler or Runner step in which a failure occurred emits exactly
\* one error flash: every failure is flashed, and flashed once.
C9_OneFlashPerFailure ==
    last.fails # <<>> => (Len(last.errs) = 1 /\ Len(last.fails) = 1)

\* C10: a trigger in which resolving the selection to a pod failed flashes
\* that error, opens no dialog and does not query the Registry.
C10_ResolveFailureAborts ==
    (/\ last.op = "portFwdCmd"
     /\ last.fails # <<>>
     /\ last.fails[1] \in ResolveFailures)
        => /\ last.errs = <<last.fails[1]>>
           /\ dialog = NoDialog
           /\ ~last.regQueried

\* C11: in the teardown dialog, a confirmation whose remote delete succeeds
\* leaves no session of the pod in the Registry, shows the success message
\* and refreshes the table; one whose delete fails shows the error and
\* neither the success message nor a refresh, and leaves the Registry as it
\* was; a cancel changes neither the Registry nor any session.
C11_TeardownOutcomes ==
    [][/\ (last'.op = "deleteOK" /\ last'.delOk) =>
             /\ ~(\E k \in Keys : k[1] = dialog.pod /\ registry'[k] # None)
             /\ last'.infos = <<"deleted">> /\ last'.errs = <<>>
             /\ last'.refreshed
       /\ (last'.op = "deleteOK" /\ ~last'.delOk) =>
             /\ last'.errs = <<"delete">> /\ last'.infos = <<>>
             /\ ~last'.refreshed
             /\ registry' = registry
       /\ last'.op = "deleteCancel" =>
             /\ registry' = registry /\ sessKey' = sessKey /\ active' = active
             /\ pc' = pc /\ uiq' = uiq /\ nextId' = nextId
             /\ last'.errs = <<>> /\ last'.infos = <<>> /\ ~last'.refreshed]_vars

\* C11 witness: a confirmed teardown has removed the session of a Runner
\* that is still forwarding, with the success message and the refresh.
C11_Witness ==
    /\ last.op = "deleteOK" /\ last.refreshed /\ last.infos = <<"deleted">>
    /\ ~PodForwarded("p1")
    /\ \E s \in Sessions : sessKey[s][1] = "p1" /\ pc[s] = "forwarding"

ActivatedPending(s) == uiq[s] # <<>> /\ Head(uiq[s]) = "activated"

\* C12: the UI loop is never held up by a tunnel: whatever the Runners do
\* (a Runner may stay in ForwardPorts for ever), a queued "activated" update
\* is eventually executed.
C12_ActivatedEventuallyShown ==
    \A s \in Sessions : ActivatedPending(s) ~> ~ActivatedPending(s)

\* C12 witness: the "activated" update of a Runner has been executed while
\* that Runner is inside ForwardPorts.
C12_Witness ==
    /\ last.op = "activated"
    /\ \E s \in Sessions : pc[s] \in {"fwdCall", "forwarding"} /\ uiq[s] = <<>>

DecimalOf == (80 :> "80") @@ (8080 :> "8080")

EntryOf(co, p) == co \o "/" \o p.Name \o ":" \o DecimalOf[p.ContainerPort]

TCPDecls == {d \in (DOMAIN mm) \X (1..MaxPorts) :
                d[2] <= Len(mm[d[1]]) /\ mm[d[1]][d[2]].Protocol = "TCP"}

\* C13: the candidate list shown for a port map holds, for every string,
\* as many entries as the map has TCP ports that format to it as
\* container/portName:containerPort, and nothing else: one entry per TCP
\* port, none for a non-TCP port.
C13_CandidatesAreTheTCPPorts ==
    dialog.kind = "ports" =>
        /\ Len(ports) = Cardinality(TCPDecls)
        /\ \A e \in {ports[i] : i \in DOMAIN ports}
                 \cup {EntryOf(d[1], mm[d[1]][d[2]]) : d \in TCPDecls} :
              Cardinality({i \in DOMAIN ports : ports[i] = e})
                 = Cardinality({d \in TCPDecls : EntryOf(d[1], mm[d[1]][d[2]]) = e})

\* C13 witness: two containers, each with a TCP and a non-TCP port, and the
\* list shown holds the two TCP entries.
C13_Witness ==
    /\ dialog.kind = "ports"
    /\ DOMAIN mm = PodContainers
    /\ \A co \in PodContainers :
          /\ \E i \in DOMAIN mm[co] : mm[co][i].Protocol = "TCP"
          /\ \E i \in DOMAIN mm[co] : mm[co][i].Protocol = "UDP"
    /\ Len(ports) = 2

\* The transport-error flash of session s has been shown: runForward has
\* returned without queuing the cleanup closure.
Errored(s) ==
    /\ pc[s] = "done" /\ active[s]
    /\ \A i \in DOMAIN uiq[s] : uiq[s][i] # "cleanup"

\* C14: the "activated" notification of a session is never shown after the
\* error notification of the same session.
C14_ActivatedBeforeError ==
    [][\A s \in Sessions :
          (last'.op = "activated" /\ uiq'[s] # uiq[s]) => ~Errored(s)]_vars

\* C15: when pf.Start fails after the ports were free and no session held
\* the key, startFwdCB flashes that one error and changes nothing else: no
\* Runner is launched, the Registry and every active flag stay as they were.
C15_StartFailureLeavesNothing ==
    [][(/\ last'.op = "startFwdCB"
        /\ ~last'.busy /\ ~last'.dup /\ ~last'.startOk) =>
          /\ last'.errs = <<"start">>
          /\ registry' = registry /\ active' = active
          /\ sessKey' = sessKey /\ pc' = pc /\ nextId' = nextId
          /\ uiq' = uiq]_vars

\* C15 witness: a pf.Start failure with free ports and a free key; no
\* Runner exists afterwards.
C15_Witness ==
    /\ last.op = "startFwdCB" /\ ~last.busy /\ ~last.dup /\ ~last.startOk
    /\ last.errs = <<"start">>
    /\ pc = [s \in Sessions |-> "none"]

\* C16: the cleanup closure of one Runner never removes the Registry entry
\* of another, live session.
C16_CleanupRemovesOwnSessionOnly ==
    [][\A s, o \in Sessions :
          (/\ last'.op = "cleanup" /\ uiq'[s] # uiq[s]
           /\ o # s /\ Live(o) /\ registry[sessKey[o]] = o)
             => registry'[sessKey[o]] = o]_vars

\* C17: a trigger with nothing selected returns the key event unhandled,
\* opens no dialog, shows no notification and changes neither the Registry
\* nor any session.
C17_NoSelectionIsNoOp ==
    [][(last'.op = "portFwdCmd" /\ last'.sel = "") =>
          /\ last'.ret = "evt"
          /\ dialog' = dialog
          /\ last'.errs = <<>> /\ last'.infos = <<>> /\ ~last'.refreshed
          /\ registry' = registry /\ active' = active
          /\ sessKey' = sessKey /\ pc' = pc /\ nextId' = nextId
          /\ uiq' = uiq]_vars

\* C17 witness: an empty-selection trigger while a session is forwarding.
C17_Witness ==
    /\ last.op = "portFwdCmd" /\ last.sel = "" /\ last.ret = "evt"
    /\ \E s \in Sessions : pc[s] = "forwarding" /\ registry[sessKey[s]] = s

====
